---- MODULE Spec2Model ----
(***************************************************************************)
(* Model of the seller-apis synchroniser: seller.py (Ozon) and market.py   *)
(* (Yandex Market).  Text values (quantities, prices) are sequences of     *)
(* one-character strings, so that parsing is modelled character by         *)
(* character.  Offer identifiers are natural numbers standing for distinct *)
(* identifier strings (only equality of identifiers is ever used).         *)
(* Dictionary keys "Код", "Количество", "Цена" are written Kod,            *)
(* Kolichestvo, Cena.                                                      *)
(***************************************************************************)
EXTENDS Integers, Sequences, FiniteSets, TLC

VARIABLES
    mode,            \* which program / harness this behaviour runs
    price,           \* price_conversion: the argument
    converted,       \* price_conversion: the call's result slot
    lst,             \* divide: the list argument
    n,               \* divide: the chunk size argument
    chunks,          \* divide: the result slot of list(divide(lst, n))
    watch_remnants,  \* the inventory records (download_stock's result)
    offer_ids,       \* the caller's offer-id list object (mutated in place)
    warehouse_id,    \* market.create_stocks: warehouse argument
    calls,           \* create_stocks harness: the calls made so far
    pc,              \* position of main / get_offer_ids
    scope,           \* marketplace scope being processed: "OZON", "FBS", "DBS"
    catalog,         \* the marketplace: scope -> chain of catalog pages
    page,            \* get_offer_ids: the continuation token (last_id / page)
    product_list,    \* get_offer_ids: the accumulated items
    requests,        \* every HTTP request issued so far, in order
    applied,         \* the write requests the marketplace answered with success
    stocks,          \* main: the stock update list
    prices,          \* main: the price update list
    todo,            \* main: the batches of the running for loop not yet sent
    outcome,         \* "running", "finished", "handled" (printed) or "uncaught"
    printed,         \* what the except clauses printed
    coroutines       \* coroutine objects created and never awaited

fnVars == <<price, converted, lst, n, chunks>>
stockVars == <<watch_remnants, offer_ids, warehouse_id, calls>>
runVars == <<pc, scope, catalog, page, product_list, requests, applied, stocks,
             prices, todo, outcome, printed, coroutines>>
vars == <<mode, price, converted, lst, n, chunks, watch_remnants, offer_ids,
          warehouse_id, calls, pc, scope, catalog, page, product_list, requests,
          applied, stocks, prices, todo, outcome, printed, coroutines>>

\* The result slot of a call that has not returned yet, and of one that has.
NotYet == [returned |-> FALSE, value |-> <<>>]
Returned(v) == [returned |-> TRUE, value |-> v]

(***************************************************************************)
(* Bounds of the model.                                                    *)
(***************************************************************************)
MaxPriceLen == 4
MaxLen == 5
MaxN == 4
MaxQtyLen == 3
MaxInv == 2
MaxOffers == 3
MaxPages == 3
MaxPageItems == 2
MaxRequests == 5
MaxInvMain == 2
SmallCatalog == 3
LargeOzonCatalog == 201
LargeMarketCatalog == 2001

(***************************************************************************)
(* Constants of the programs.                                              *)
(***************************************************************************)
OzonPageLimit == 1000
MarketPageLimit == 200
OzonStockBatch == 100
OzonPriceBatch == 900
MarketStockBatch == 2000
MarketPriceBatch == 500

(***************************************************************************)
(* Generic helpers.                                                        *)
(***************************************************************************)
Min(a, b) == IF a < b THEN a ELSE b

SeqsUpTo(S, k) == UNION {[1..m -> S] : m \in 0..k}

Range(s) == {s[i] : i \in 1..Len(s)}

InList(x, s) == \E i \in 1..Len(s) : s[i] = x

NoDuplicates(s) == \A i, j \in 1..Len(s) : s[i] = s[j] => i = j

Count(x, s) == Cardinality({i \in 1..Len(s) : s[i] = x})

RECURSIVE Flatten(_)
Flatten(ss) == IF ss = <<>> THEN <<>> ELSE Head(ss) \o Flatten(Tail(ss))

\* Python's lst[a:b] for 0 <= a <= b: the elements at 0-based positions a..b-1,
\* clamped to the list.
Slice(s, a, b) == SubSeq(s, a + 1, Min(b, Len(s)))

\* list.remove(x): drops the first occurrence of x.
FirstIndex(x, s) == CHOOSE i \in 1..Len(s) : s[i] = x /\ \A j \in 1..(i - 1) : s[j] # x
ListRemove_keep(s, x) == s

ListRemove(s, x) ==
    LET i == FirstIndex(x, s) IN SubSeq(s, 1, i - 1) \o SubSeq(s, i + 1, Len(s))

(***************************************************************************)
(* Text.                                                                   *)
(***************************************************************************)
Digits == {"0", "1", "2", "3", "4", "5", "6", "7", "8", "9"}

IsDigit(c) == c \in Digits

DigitValue(c) ==
    CASE c = "0" -> 0 [] c = "1" -> 1 [] c = "2" -> 2 [] c = "3" -> 3
      [] c = "4" -> 4 [] c = "5" -> 5 [] c = "6" -> 6 [] c = "7" -> 7
      [] c = "8" -> 8 [] c = "9" -> 9

RECURSIVE DigitsValue(_)
DigitsValue(s) ==
    IF s = <<>> THEN 0
    ELSE 10 * DigitsValue(SubSeq(s, 1, Len(s) - 1)) + DigitValue(s[Len(s)])

\* int(text): an optional sign followed by one or more decimal digits parses;
\* anything else raises ValueError.
int_body(s) == IF Len(s) > 0 /\ s[1] \in {"-", "+"} THEN Tail(s) ELSE s
int_parses(s) == Len(int_body(s)) > 0 /\ \A i \in 1..Len(int_body(s)) : IsDigit(int_body(s)[i])
int_value(s) ==
    IF Len(s) > 0 /\ s[1] = "-" THEN 0 - DigitsValue(int_body(s)) ELSE DigitsValue(int_body(s))

\* re.sub("[^0-9]", "", text): keeps the ASCII digits, in order.
RECURSIVE re_sub_non_digits(_)
re_sub_non_digits(s) ==
    IF s = <<>> THEN <<>>
    ELSE IF IsDigit(Head(s)) THEN <<Head(s)>> \o re_sub_non_digits(Tail(s))
    ELSE re_sub_non_digits(Tail(s))

\* text.split(".")[0]: the text before the first "." (all of it when none).
RECURSIVE split_dot_first(_)
split_dot_first(s) ==
    IF s = <<>> THEN <<>>
    ELSE IF Head(s) = "." THEN <<>>
    ELSE <<Head(s)>> \o split_dot_first(Tail(s))

(***************************************************************************)
(* seller.price_conversion                                                 *)
(***************************************************************************)
price_conversion_rounding(p) == re_sub_non_digits(p)

price_conversion(p) == re_sub_non_digits(split_dot_first(p))

(***************************************************************************)
(* seller.divide: list(divide(lst, n)) for n > 0.                          *)
(***************************************************************************)
\* range(0, len, n) for n > 0 has ceil(len / n) elements.
range_len(len, step) == (len + step - 1) \div step

divide_one_chunk(l, k) == IF l = <<>> THEN <<>> ELSE <<l>>

divide_drop_tail(l, k) ==
    [c \in 1..(Len(l) \div k) |-> Slice(l, (c - 1) * k, (c - 1) * k + k)]

divide(l, k) ==
    [c \in 1..range_len(Len(l), k) |-> Slice(l, (c - 1) * k, (c - 1) * k + k)]

(***************************************************************************)
(* Quantity policy of create_stocks (the if/elif/else on count).           *)
(* Result: [raised, stock]; raised = "ValueError" when int() fails.        *)
(***************************************************************************)
GT10 == <<">", "1", "0">>
ONE == <<"1">>

seller_stock_policy_keep_one(count) ==
    IF count = GT10 THEN [raised |-> "none", stock |-> 100]
    ELSE IF int_parses(count) THEN [raised |-> "none", stock |-> int_value(count)]
    ELSE [raised |-> "ValueError", stock |-> 0]

seller_stock_policy(count) ==
    IF count = GT10 THEN [raised |-> "none", stock |-> 100]
    ELSE IF count = ONE THEN [raised |-> "none", stock |-> 0]
    ELSE IF int_parses(count) THEN [raised |-> "none", stock |-> int_value(count)]
    ELSE [raised |-> "ValueError", stock |-> 0]

market_stock_policy(count) ==
    IF count = GT10 THEN [raised |-> "none", stock |-> 100]
    ELSE IF count = ONE THEN [raised |-> "none", stock |-> 0]
    ELSE IF int_parses(count) THEN [raised |-> "none", stock |-> int_value(count)]
    ELSE [raised |-> "ValueError", stock |-> 0]

(***************************************************************************)
(* seller.create_stocks(watch_remnants, offer_ids).  The result records    *)
(* whether the call returned, the list it returned, the exception it       *)
(* raised, and the state in which it leaves the caller's offer_ids list    *)
(* (the list is mutated in place by offer_ids.remove).                     *)
(***************************************************************************)
seller_stock_entry(id, stock) == [offer_id |-> id, stock |-> stock]

RECURSIVE seller_match_loop(_, _, _, _)
seller_match_loop(remnants, i, ids, acc) ==
    IF i > Len(remnants)
    THEN [raised |-> "none", stocks |-> acc, offer_ids |-> ids]
    ELSE LET watch == remnants[i] IN
         IF InList(watch.Kod, ids)
         THEN LET p == seller_stock_policy(watch.Kolichestvo) IN
              IF p.raised # "none"
              THEN [raised |-> p.raised, stocks |-> acc, offer_ids |-> ids]
              ELSE seller_match_loop(remnants, i + 1, ListRemove(ids, watch.Kod),
                                     Append(acc, seller_stock_entry(watch.Kod, p.stock)))
         ELSE seller_match_loop(remnants, i + 1, ids, acc)

seller_create_stocks(remnants, ids) ==
    LET m == seller_match_loop(remnants, 1, ids, <<>>) IN
    IF m.raised # "none"
    THEN [returned |-> FALSE, raised |-> m.raised, stocks |-> <<>>, offer_ids |-> m.offer_ids]
    ELSE [returned |-> TRUE, raised |-> "none",
          stocks |-> m.stocks \o [k \in 1..Len(m.offer_ids) |->
                                     seller_stock_entry(m.offer_ids[k], 0)],
          offer_ids |-> m.offer_ids]

(***************************************************************************)
(* market.create_stocks(watch_remnants, offer_ids, warehouse_id); date is  *)
(* the value utcnow() gave at the start of the call.                       *)
(***************************************************************************)
market_stock_entry(id, wh, stock, date) ==
    [sku |-> id, warehouseId |-> wh,
     items |-> <<[count |-> stock, type |-> "FIT", updatedAt |-> date]>>]

RECURSIVE market_match_loop(_, _, _, _, _, _)
market_match_loop(remnants, i, ids, acc, wh, date) ==
    IF i > Len(remnants)
    THEN [raised |-> "none", stocks |-> acc, offer_ids |-> ids]
    ELSE LET watch == remnants[i] IN
         IF InList(watch.Kod, ids)
         THEN LET p == market_stock_policy(watch.Kolichestvo) IN
              IF p.raised # "none"
              THEN [raised |-> p.raised, stocks |-> acc, offer_ids |-> ids]
              ELSE market_match_loop(remnants, i + 1, ListRemove(ids, watch.Kod),
                                     Append(acc, market_stock_entry(watch.Kod, wh, p.stock, date)),
                                     wh, date)
         ELSE market_match_loop(remnants, i + 1, ids, acc, wh, date)

market_create_stocks(remnants, ids, wh, date) ==
    LET m == market_match_loop(remnants, 1, ids, <<>>, wh, date) IN
    IF m.raised # "none"
    THEN [returned |-> FALSE, raised |-> m.raised, stocks |-> <<>>, offer_ids |-> m.offer_ids]
    ELSE [returned |-> TRUE, raised |-> "none",
          stocks |-> m.stocks \o [k \in 1..Len(m.offer_ids) |->
                                     market_stock_entry(m.offer_ids[k], wh, 0, date)],
          offer_ids |-> m.offer_ids]

(***************************************************************************)
(* Optional text values (a Python str or None), used for the continuation  *)
(* tokens.  The empty token is the empty text; the token that leads to     *)
(* page k of a chain is the one-element text <<k>>.                        *)
(***************************************************************************)
Str(t) == [is_none |-> FALSE, text |-> t]
None == [is_none |-> TRUE, text |-> <<>>]

\* Python truthiness of an optional text: "not page".
Falsy(v) == v.is_none \/ v.text = <<>>

PageToken(k) == Str(<<k>>)
PageIndex(tok) == IF tok.text = <<>> THEN 1 ELSE tok.text[1]

RECURSIVE SumTo(_, _)
SumTo(sizes, k) == IF k = 0 THEN 0 ELSE sizes[k] + SumTo(sizes, k - 1)

(***************************************************************************)
(* The marketplaces' catalog endpoints.  A catalog is a chain of pages     *)
(* holding the identifiers 1..N in order; page k is served for the token   *)
(* the page before it returned (the first page for the empty token).       *)
(***************************************************************************)
\* Ozon /v2/product/list: result = {items, total, last_id}.
OzonChain(sizes, totals) ==
    [k \in 1..Len(sizes) |->
        [items |-> [j \in 1..sizes[k] |-> [offer_id |-> SumTo(sizes, k - 1) + j]],
         total |-> totals[k],
         last_id |-> PageToken(k + 1)]]

\* A request past the last page is answered with an empty page.
ozon_get_product_list(chain, last_id) ==
    IF PageIndex(last_id) <= Len(chain)
    THEN chain[PageIndex(last_id)]
    ELSE [items |-> <<>>, total |-> chain[Len(chain)].total, last_id |-> last_id]

\* Yandex offer-mapping-entries: result = {offerMappingEntries, paging}.
YandexChain(sizes, last_token) ==
    [k \in 1..Len(sizes) |->
        [offerMappingEntries |->
            [j \in 1..sizes[k] |-> [offer |-> [shopSku |-> SumTo(sizes, k - 1) + j]]],
         paging |-> [nextPageToken |->
                        IF k < Len(sizes) THEN PageToken(k + 1) ELSE last_token]]]

market_get_product_list(chain, token) ==
    IF PageIndex(token) <= Len(chain)
    THEN chain[PageIndex(token)]
    ELSE [offerMappingEntries |-> <<>>, paging |-> [nextPageToken |-> None]]

\* The catalog of N identifiers served in pages of at most limit items.
PageSizes(N, limit) ==
    [k \in 1..(IF N = 0 THEN 1 ELSE range_len(N, limit)) |-> Min(limit, N - (k - 1) * limit)]

(***************************************************************************)
(* The requests a program issues.  ok tells whether the marketplace        *)
(* answered with success (raise_for_status passed).                        *)
(***************************************************************************)
ListRequest(sc, tok, ok) ==
    [kind |-> "list", scope |-> sc, token |-> tok, batch |-> <<>>, ok |-> ok]
WriteRequest(kind, sc, batch, ok) ==
    [kind |-> kind, scope |-> sc, token |-> None, batch |-> batch, ok |-> ok]
DownloadRequest(ok) ==
    [kind |-> "download", scope |-> "casio", token |-> None, batch |-> <<>>, ok |-> ok]

IsWrite(r) == r.kind \in {"stocks", "prices"}

ListCount == Cardinality({i \in 1..Len(requests) : requests[i].kind = "list"})

\* Where control goes when get_offer_ids returns.
AfterGetOfferIds ==
    CASE mode = "seller_main" -> "download"
      [] mode = "market_main" -> "create_stocks"
      [] OTHER -> "returned"

(***************************************************************************)
(* seller.get_offer_ids: one iteration of the while loop (a page request   *)
(* that is answered), with the return when the loop breaks.                *)
(***************************************************************************)
seller_next_last_id_stuck(some_prod) == Str(<<>>)

seller_next_last_id(some_prod) == some_prod.last_id

seller_offer_ids(products) == [k \in 1..Len(products) |-> products[k].offer_id]

SellerGetPage ==
    /\ mode \in {"seller_main", "seller_get_offer_ids"} /\ pc = "get_offer_ids"
    /\ ListCount < MaxRequests
    /\ LET some_prod == ozon_get_product_list(catalog[scope], page)
           extended == product_list \o some_prod.items
       IN  /\ requests' = Append(requests, ListRequest(scope, page, TRUE))
           /\ product_list' = extended
           /\ page' = seller_next_last_id(some_prod)
           /\ IF some_prod.total = Len(extended)
              THEN offer_ids' = seller_offer_ids(extended) /\ pc' = AfterGetOfferIds
              ELSE UNCHANGED <<offer_ids, pc>>
    /\ UNCHANGED <<mode, fnVars, watch_remnants, warehouse_id, calls, scope, catalog,
                   applied, stocks, prices, todo, outcome, printed, coroutines>>

(***************************************************************************)
(* market.get_offer_ids: one iteration of the while loop.                  *)
(***************************************************************************)
market_offer_ids(products) == [k \in 1..Len(products) |-> products[k].offer.shopSku]

MarketGetPage ==
    /\ mode \in {"market_main", "market_get_offer_ids"} /\ pc = "get_offer_ids"
    /\ LET some_prod == market_get_product_list(catalog[scope], page)
           extended == product_list \o some_prod.offerMappingEntries
           next == some_prod.paging.nextPageToken
       IN  /\ requests' = Append(requests, ListRequest(scope, page, TRUE))
           /\ product_list' = extended
           /\ page' = next
           /\ IF Falsy(next)
              THEN offer_ids' = market_offer_ids(extended) /\ pc' = AfterGetOfferIds
              ELSE UNCHANGED <<offer_ids, pc>>
    /\ UNCHANGED <<mode, fnVars, watch_remnants, warehouse_id, calls, scope, catalog,
                   applied, stocks, prices, todo, outcome, printed, coroutines>>

(***************************************************************************)
(* seller.create_prices and market.create_prices.                          *)
(***************************************************************************)
seller_price_entry(watch) ==
    [auto_action_enabled |-> "UNKNOWN", currency_code |-> "RUB", offer_id |-> watch.Kod,
     old_price |-> "0", price |-> price_conversion(watch.Cena)]

RECURSIVE seller_create_prices(_, _)
seller_create_prices(remnants, ids) ==
    IF remnants = <<>> THEN <<>>
    ELSE (IF InList(Head(remnants).Kod, ids) THEN <<seller_price_entry(Head(remnants))>>
          ELSE <<>>) \o seller_create_prices(Tail(remnants), ids)

market_price_entry(watch) ==
    [id |-> watch.Kod,
     price |-> [value |-> int_value(price_conversion(watch.Cena)), currencyId |-> "RUR"]]

RECURSIVE market_prices_loop(_, _, _)
market_prices_loop(remnants, ids, acc) ==
    IF remnants = <<>> THEN [returned |-> TRUE, raised |-> "none", prices |-> acc]
    ELSE IF InList(Head(remnants).Kod, ids)
    THEN IF int_parses(price_conversion(Head(remnants).Cena))
         THEN market_prices_loop(Tail(remnants), ids,
                                 Append(acc, market_price_entry(Head(remnants))))
         ELSE [returned |-> FALSE, raised |-> "ValueError", prices |-> <<>>]
    ELSE market_prices_loop(Tail(remnants), ids, acc)

market_create_prices(remnants, ids) == market_prices_loop(remnants, ids, <<>>)

(***************************************************************************)
(* The orchestrators seller.main and market.main.                          *)
(***************************************************************************)
\* The values utcnow() may give.
Dates == {"T1", "T2"}

Mains == {"seller_main", "market_main"}

ErrorKinds == {"ReadTimeout", "ConnectionError", "HTTPError"}

\* What the except clauses print (transliterated).
Message(e) ==
    CASE e = "ReadTimeout" -> "Prevysheno vremya ozhidaniya..."
      [] e = "ConnectionError" -> "Oshibka soedineniya"
      [] OTHER -> "ERROR_2"

\* market.main calls download_stock() before its try statement.
InTry == ~(mode = "market_main" /\ pc = "download")

Raise_and_continue(e) ==
    /\ printed' = Append(printed, Message(e))
    /\ UNCHANGED <<pc, outcome>>

\* An exception of kind e leaves the step that raised it: inside the try it
\* reaches an except clause, which prints and ends the run; outside it escapes.
Raise(e) ==
    IF InTry
    THEN pc' = "done" /\ outcome' = "handled" /\ printed' = Append(printed, Message(e))
    ELSE pc' = "done" /\ outcome' = "uncaught" /\ printed' = printed

WarehouseOf(sc) == IF sc = "FBS" THEN "WAREHOUSE_FBS_ID" ELSE "WAREHOUSE_DBS_ID"

\* The request the program issues next, with the answer's status.
PendingRequest(ok) ==
    CASE pc = "get_offer_ids" -> ListRequest(scope, page, ok)
      [] pc = "download" -> DownloadRequest(ok)
      [] pc = "push_stocks" -> WriteRequest("stocks", scope, Head(todo), ok)
      [] pc = "push_prices" -> WriteRequest("prices", scope, Head(todo), ok)

AtRequest ==
    \/ pc \in {"get_offer_ids", "download"}
    \/ pc \in {"push_stocks", "push_prices"} /\ todo # <<>>

\* A request fails (transport error or raise_for_status).
RequestFails ==
    /\ mode \in Mains /\ AtRequest
    /\ \E e \in ErrorKinds :
         /\ requests' = Append(requests, PendingRequest(FALSE))
         /\ Raise(e)
    /\ UNCHANGED <<mode, fnVars, stockVars, scope, catalog, page, product_list, applied,
                   stocks, prices, todo, coroutines>>

\* download_stock() returns the inventory records.
DownloadStock ==
    /\ mode \in Mains /\ pc = "download"
    /\ requests' = Append(requests, DownloadRequest(TRUE))
    /\ watch_remnants' = catalog["casio"]
    /\ pc' = IF mode = "seller_main" THEN "create_stocks" ELSE "get_offer_ids"
    /\ UNCHANGED <<mode, fnVars, offer_ids, warehouse_id, calls, scope, catalog, page,
                   product_list, applied, stocks, prices, todo, outcome, printed, coroutines>>

\* seller.main: stocks = create_stocks(...) and list(divide(stocks, 100)).
SellerCreateStocks ==
    /\ mode = "seller_main" /\ pc = "create_stocks"
    /\ LET r == seller_create_stocks(watch_remnants, offer_ids) IN
         /\ offer_ids' = r.offer_ids
         /\ IF r.returned
            THEN /\ stocks' = r.stocks
                 /\ todo' = divide(r.stocks, OzonStockBatch)
                 /\ pc' = "push_stocks"
                 /\ UNCHANGED <<outcome, printed>>
            ELSE Raise(r.raised) /\ UNCHANGED <<stocks, todo>>
    /\ UNCHANGED <<mode, fnVars, watch_remnants, warehouse_id, calls, scope, catalog, page,
                   product_list, requests, applied, prices, coroutines>>

\* market.main: stocks = create_stocks(...) and list(divide(stocks, 2000)).
MarketCreateStocks ==
    /\ mode = "market_main" /\ pc = "create_stocks"
    /\ \E date \in Dates :
         LET r == market_create_stocks(watch_remnants, offer_ids, warehouse_id, date) IN
           /\ offer_ids' = r.offer_ids
           /\ IF r.returned
              THEN /\ stocks' = r.stocks
                   /\ todo' = divide(r.stocks, MarketStockBatch)
                   /\ pc' = "push_stocks"
                   /\ UNCHANGED <<outcome, printed>>
              ELSE Raise(r.raised) /\ UNCHANGED <<stocks, todo>>
    /\ UNCHANGED <<mode, fnVars, watch_remnants, warehouse_id, calls, scope, catalog, page,
                   product_list, requests, applied, prices, coroutines>>

\* One iteration of a for loop over the batches: update_stocks / update_price
\* is answered with success.
PushBatch ==
    /\ mode \in Mains /\ pc \in {"push_stocks", "push_prices"} /\ todo # <<>>
    /\ requests' = Append(requests, PendingRequest(TRUE))
    /\ applied' = Append(applied, PendingRequest(TRUE))
    /\ todo' = Tail(todo)
    /\ UNCHANGED <<mode, fnVars, stockVars, pc, scope, catalog, page, product_list,
                   stocks, prices, outcome, printed, coroutines>>

\* The stock loop is exhausted.
StocksLoopEnds ==
    /\ mode \in Mains /\ pc = "push_stocks" /\ todo = <<>>
    /\ pc' = IF mode = "seller_main" THEN "create_prices" ELSE "upload_prices"
    /\ UNCHANGED <<mode, fnVars, stockVars, scope, catalog, page, product_list, requests,
                   applied, stocks, prices, todo, outcome, printed, coroutines>>

\* seller.main: prices = create_prices(...) and list(divide(prices, 900)).
SellerCreatePrices ==
    /\ mode = "seller_main" /\ pc = "create_prices"
    /\ prices' = seller_create_prices(watch_remnants, offer_ids)
    /\ todo' = divide(seller_create_prices(watch_remnants, offer_ids), OzonPriceBatch)
    /\ pc' = "push_prices"
    /\ UNCHANGED <<mode, fnVars, stockVars, scope, catalog, page, product_list, requests,
                   applied, stocks, outcome, printed, coroutines>>

\* seller.main: the price loop is exhausted and main returns.
PricesLoopEnds ==
    /\ mode = "seller_main" /\ pc = "push_prices" /\ todo = <<>>
    /\ pc' = "done" /\ outcome' = "finished"
    /\ UNCHANGED <<mode, fnVars, stockVars, scope, catalog, page, product_list, requests,
                   applied, stocks, prices, todo, printed, coroutines>>

\* market.main: upload_prices(...) is an async def called without await: the
\* call builds a coroutine object and runs none of its body.  After the FBS
\* scope main goes on to the DBS scope; after the DBS scope it returns.
MarketCallUploadPrices ==
    /\ mode = "market_main" /\ pc = "upload_prices"
    /\ coroutines' = Append(coroutines, [function |-> "upload_prices", scope |-> scope])
    /\ IF scope = "FBS"
       THEN /\ scope' = "DBS" /\ warehouse_id' = WarehouseOf("DBS")
            /\ pc' = "get_offer_ids" /\ page' = Str(<<>>) /\ product_list' = <<>>
            /\ UNCHANGED outcome
       ELSE /\ pc' = "done" /\ outcome' = "finished"
            /\ UNCHANGED <<scope, warehouse_id, page, product_list>>
    /\ UNCHANGED <<mode, fnVars, watch_remnants, offer_ids, calls, catalog, requests,
                   applied, stocks, prices, todo, printed>>

(***************************************************************************)
(* Values of the variables a harness does not use.                         *)
(***************************************************************************)
FnIdle == price = <<>> /\ converted = NotYet /\ lst = <<>> /\ n = 1 /\ chunks = NotYet

StockIdle == watch_remnants = <<>> /\ offer_ids = <<>> /\ warehouse_id = "" /\ calls = <<>>

RunIdle ==
    /\ pc = "idle" /\ scope = "" /\ catalog = <<>> /\ page = Str(<<>>) /\ product_list = <<>>
    /\ requests = <<>> /\ applied = <<>> /\ stocks = <<>> /\ prices = <<>> /\ todo = <<>>
    /\ outcome = "idle" /\ printed = <<>> /\ coroutines = <<>>

(***************************************************************************)
(* Harness of price_conversion: one call on a price text.                  *)
(***************************************************************************)
PriceAlphabet == {"1", "9", "'", ".", "r", " "}

\* "5'990.00 руб.", "1000 руб.", "12.99" (Cyrillic letters written r, u, b).
PriceExamples ==
    { <<"5", "'", "9", "9", "0", ".", "0", "0", " ", "r", "u", "b", ".">>,
      <<"1", "0", "0", "0", " ", "r", "u", "b", ".">>,
      <<"1", "2", ".", "9", "9">> }

PriceTexts == SeqsUpTo(PriceAlphabet, MaxPriceLen) \cup PriceExamples

InitPrice ==
    /\ mode = "price_conversion"
    /\ price \in PriceTexts
    /\ converted = NotYet /\ lst = <<>> /\ n = 1 /\ chunks = NotYet
    /\ StockIdle /\ RunIdle

CallPriceConversion ==
    /\ mode = "price_conversion" /\ converted = NotYet
    /\ converted' = Returned(price_conversion(price))
    /\ UNCHANGED <<mode, price, lst, n, chunks, stockVars, runVars>>

NextPrice == CallPriceConversion

SpecPrice == InitPrice /\ [][NextPrice]_vars

(***************************************************************************)
(* Harness of divide: one call list(divide(lst, n)) with n > 0.            *)
(***************************************************************************)
DivideLists == SeqsUpTo({1, 2}, MaxLen) \cup {<<1, 2, 3, 4, 5>>}

InitDivide ==
    /\ mode = "divide"
    /\ lst \in DivideLists /\ n \in 1..MaxN /\ chunks = NotYet
    /\ price = <<>> /\ converted = NotYet
    /\ StockIdle /\ RunIdle

CallDivide ==
    /\ mode = "divide" /\ chunks = NotYet
    /\ chunks' = Returned(divide(lst, n))
    /\ UNCHANGED <<mode, price, converted, lst, n, stockVars, runVars>>

NextDivide == CallDivide

SpecDivide == InitDivide /\ [][NextDivide]_vars

(***************************************************************************)
(* C10.  Price parser: the result of price_conversion is exactly the ASCII *)
(* digits, in order, of the text before the first "." (the fraction is     *)
(* cut off, not rounded; separators and currency labels are dropped); it   *)
(* is the empty text, without error, when that text holds no digit;        *)
(* "5'990.00 rub." gives "5990", "1000 rub." gives "1000", "12.99" "12".   *)
(***************************************************************************)
FirstDot(p) ==
    IF \E i \in 1..Len(p) : p[i] = "."
    THEN CHOOSE i \in 1..Len(p) : p[i] = "." /\ \A j \in 1..(i - 1) : p[j] # "."
    ELSE Len(p) + 1

DigitPositions(p) == {i \in 1..(FirstDot(p) - 1) : IsDigit(p[i])}

NthOf(S, k) == CHOOSE i \in S : Cardinality({j \in S : j <= i}) = k

C10_PriceDigitsBeforeDot ==
    (mode = "price_conversion" /\ converted.returned) =>
        /\ Len(converted.value) = Cardinality(DigitPositions(price))
        /\ \A k \in 1..Len(converted.value) : converted.value[k] = price[NthOf(DigitPositions(price), k)]
        /\ (DigitPositions(price) = {} => converted.value = <<>>)
        /\ (price = <<"5", "'", "9", "9", "0", ".", "0", "0", " ", "r", "u", "b", ".">>
                => converted.value = <<"5", "9", "9", "0">>)
        /\ (price = <<"1", "0", "0", "0", " ", "r", "u", "b", ".">>
                => converted.value = <<"1", "0", "0", "0">>)
        /\ (price = <<"1", "2", ".", "9", "9">> => converted.value = <<"1", "2">>)

\* A price with a separator, a fraction and a currency label has been converted.
C10_Witness ==
    /\ mode = "price_conversion"
    /\ price = <<"5", "'", "9", "9", "0", ".", "0", "0", " ", "r", "u", "b", ".">>
    /\ converted.value = <<"5", "9", "9", "0">>

(***************************************************************************)
(* C7.  Batcher: for n > 0 the chunks of divide(lst, n) concatenate to lst *)
(* in the original order, every chunk has between 1 and n elements, every  *)
(* chunk but the last has exactly n, and an empty lst gives no chunk;      *)
(* divide([1,2,3,4,5], 2) gives [[1,2],[3,4],[5]].                         *)
(***************************************************************************)
C7_DivideChunks ==
    (mode = "divide" /\ chunks.returned) =>
        /\ Flatten(chunks.value) = lst
        /\ \A c \in 1..Len(chunks.value) : Len(chunks.value[c]) >= 1 /\ Len(chunks.value[c]) <= n
        /\ \A c \in 1..(Len(chunks.value) - 1) : Len(chunks.value[c]) = n
        /\ (lst = <<>> => chunks.value = <<>>)
        /\ (lst = <<1, 2, 3, 4, 5>> /\ n = 2 => chunks.value = << <<1, 2>>, <<3, 4>>, <<5>> >>)

\* The documented example, with a short last chunk, has been divided.
C7_Witness ==
    /\ mode = "divide" /\ lst = <<1, 2, 3, 4, 5>> /\ n = 2
    /\ chunks.value = << <<1, 2>>, <<3, 4>>, <<5>> >>

(***************************************************************************)
(* Harness of create_stocks (both variants): up to two calls in succession *)
(* on the same inventory and the same offer_ids list object, the second    *)
(* call receiving the list as the first call left it.                      *)
(***************************************************************************)
Codes == 1..3

QtySamples == {GT10, ONE, <<"7">>, <<"x">>}

QtyAlphabet == {">", "1", "0", "7", "x", "-"}

QtyTexts == SeqsUpTo(QtyAlphabet, MaxQtyLen)

SamplePrice == <<"1", "0", "0", ".", "0", "0", " ", "r", ".">>

Watch(code, count, cena) == [Kod |-> code, Kolichestvo |-> count, Cena |-> cena]

SampleRecords == {Watch(c, q, SamplePrice) : c \in Codes, q \in QtySamples}

OfferLists == {s \in SeqsUpTo(Codes, MaxOffers) : NoDuplicates(s)}

InitStocks ==
    /\ mode \in {"seller_create_stocks", "market_create_stocks"}
    /\ \/ /\ watch_remnants \in SeqsUpTo(SampleRecords, MaxInv)
          /\ offer_ids \in OfferLists
       \/ /\ \E q \in QtyTexts : watch_remnants = <<Watch(1, q, SamplePrice)>>
          /\ offer_ids = <<2, 1>>
    /\ warehouse_id = IF mode = "market_create_stocks" THEN "WH" ELSE ""
    /\ calls = <<>>
    /\ FnIdle /\ RunIdle

SellerCallCreateStocks ==
    /\ mode = "seller_create_stocks" /\ Len(calls) < 2
    /\ LET r == seller_create_stocks(watch_remnants, offer_ids) IN
         /\ calls' = Append(calls, [given |-> offer_ids, ret |-> r])
         /\ offer_ids' = r.offer_ids
    /\ UNCHANGED <<mode, fnVars, watch_remnants, warehouse_id, runVars>>

MarketCallCreateStocks ==
    /\ mode = "market_create_stocks" /\ Len(calls) < 2
    /\ \E date \in Dates :
         LET r == market_create_stocks(watch_remnants, offer_ids, warehouse_id, date) IN
           /\ calls' = Append(calls, [given |-> offer_ids, ret |-> r])
           /\ offer_ids' = r.offer_ids
    /\ UNCHANGED <<mode, fnVars, watch_remnants, warehouse_id, runVars>>

NextStocks == SellerCallCreateStocks \/ MarketCallCreateStocks

SpecStocks == InitStocks /\ [][NextStocks]_vars

\* The identifier and the quantity of a stock update of either variant.
EntryId(e) == IF mode = "seller_create_stocks" THEN e.offer_id ELSE e.sku
EntryQty(e) == IF mode = "seller_create_stocks" THEN e.stock ELSE e.items[1].count

\* The quantity the policy assigns to a raw quantity text that it accepts.
PolicyAccepts(q) == q = GT10 \/ q = ONE \/ int_parses(q)
PolicyQty(q) == IF q = GT10 THEN 100 ELSE IF q = ONE THEN 0 ELSE int_value(q)

HasRecord(I, id) == \E i \in 1..Len(I) : I[i].Kod = id
FirstRecord(I, id) ==
    I[CHOOSE i \in 1..Len(I) : I[i].Kod = id /\ \A j \in 1..(i - 1) : I[j].Kod # id]

(***************************************************************************)
(* C1.  Stock reconciliation coverage: for a duplicate-free offer list O   *)
(* and any inventory I (repeated codes, codes outside O), the list         *)
(* create_stocks returns holds every identifier of O exactly once and none *)
(* outside O; an entry's quantity is the policy value of the first         *)
(* inventory record with that code, and 0 when there is none.              *)
(***************************************************************************)
C1_StockCoverage ==
    (mode \in {"seller_create_stocks", "market_create_stocks"}
       /\ Len(calls) >= 1 /\ calls[1].ret.returned) =>
        LET O == calls[1].given
            out == calls[1].ret.stocks
        IN  /\ \A id \in Range(O) :
                   Cardinality({k \in 1..Len(out) : EntryId(out[k]) = id}) = 1
            /\ \A k \in 1..Len(out) : EntryId(out[k]) \in Range(O)
            /\ \A k \in 1..Len(out) :
                   EntryQty(out[k]) =
                       IF HasRecord(watch_remnants, EntryId(out[k]))
                       THEN PolicyQty(FirstRecord(watch_remnants, EntryId(out[k])).Kolichestvo)
                       ELSE 0

\* A call has returned for an inventory that repeats a code of O with two
\* different quantities, names a code outside O, and leaves an offer unmatched.
C1_Witness ==
    /\ mode = "market_create_stocks" /\ Len(calls) = 1 /\ calls[1].ret.returned
    /\ calls[1].given = <<2, 1>>
    /\ watch_remnants = <<Watch(1, <<"7">>, SamplePrice), Watch(1, GT10, SamplePrice)>>
    /\ Len(calls[1].ret.stocks) = 2

(***************************************************************************)
(* C4.  Quantity policy for a matched inventory record: ">10" gives 100,   *)
(* "1" gives 0, any other integer literal gives its integer value ("7"     *)
(* gives 7), and any other text makes the whole reconciliation fail with a *)
(* parse error and return no list; the same in both variants.              *)
(***************************************************************************)
\* The records the loop matches: the first record of each code of O.
Matched(I, O) ==
    {i \in 1..Len(I) : InList(I[i].Kod, O) /\ \A j \in 1..(i - 1) : I[j].Kod # I[i].Kod}

C4_WitnessParseError ==
    /\ mode = "market_create_stocks" /\ Len(calls) = 1
    /\ watch_remnants = <<Watch(1, <<"x">>, SamplePrice)>> /\ calls[1].given = <<2, 1>>
    /\ ~calls[1].ret.returned

(***************************************************************************)
(* C8.  Idempotence of stock reconciliation: two calls of create_stocks in *)
(* succession with the same inventory and the same offer-id collection     *)
(* (the second receiving it as the first left it) return the same          *)
(* StockUpdate list, up to order.                                          *)
(***************************************************************************)
SameUpToOrder(a, b) ==
    /\ Len(a) = Len(b)
    /\ \A e \in Range(a) \cup Range(b) : Count(e, a) = Count(e, b)

C8_Idempotent ==
    (mode \in {"seller_create_stocks", "market_create_stocks"}
       /\ Len(calls) = 2 /\ calls[1].ret.returned /\ calls[2].ret.returned) =>
        SameUpToOrder(calls[1].ret.stocks, calls[2].ret.stocks)

(***************************************************************************)
(* Harness of get_offer_ids (both variants): one call against a            *)
(* marketplace that answers every page request.  The Ozon marketplace may  *)
(* report, on each page, a total that is the catalog's size or one off.    *)
(***************************************************************************)
PageSizeSeqs == UNION {[1..m -> 0..MaxPageItems] : m \in 1..MaxPages}

ReportedTotals(N) == {t \in {N - 1, N, N + 1} : t >= 0}

InitCatalog ==
    /\ \/ /\ mode = "seller_get_offer_ids" /\ scope = "OZON"
          /\ \E sizes \in PageSizeSeqs :
               \E totals \in [1..Len(sizes) -> ReportedTotals(SumTo(sizes, Len(sizes)))] :
                  catalog = [OZON |-> OzonChain(sizes, totals)]
       \/ /\ mode = "market_get_offer_ids" /\ scope = "FBS"
          /\ \E sizes \in PageSizeSeqs :
               \E last \in {None, Str(<<>>)} :
                  catalog = [FBS |-> YandexChain(sizes, last)]
    /\ pc = "get_offer_ids" /\ page = Str(<<>>) /\ product_list = <<>>
    /\ requests = <<>> /\ applied = <<>> /\ stocks = <<>> /\ prices = <<>> /\ todo = <<>>
    /\ outcome = "running" /\ printed = <<>> /\ coroutines = <<>>
    /\ FnIdle /\ StockIdle

NextCatalog == SellerGetPage \/ MarketGetPage

SpecCatalog == InitCatalog /\ [][NextCatalog]_vars

IsOzon == mode \in {"seller_get_offer_ids", "seller_main"}

\* What the marketplace answered to the i-th request: the identifiers of the
\* page, the continuation token it carried, and (Ozon) the total it reported.
Answer(i) ==
    IF IsOzon
    THEN ozon_get_product_list(catalog[scope], requests[i].token)
    ELSE market_get_product_list(catalog[scope], requests[i].token)

AnswerIds(i) ==
    IF IsOzon
    THEN [j \in 1..Len(Answer(i).items) |-> Answer(i).items[j].offer_id]
    ELSE [j \in 1..Len(Answer(i).offerMappingEntries) |->
              Answer(i).offerMappingEntries[j].offer.shopSku]

AnswerToken(i) ==
    IF IsOzon THEN Answer(i).last_id
    ELSE Answer(i).paging.nextPageToken

RECURSIVE IdsThrough(_)
IdsThrough(i) == IF i = 0 THEN <<>> ELSE IdsThrough(i - 1) \o AnswerIds(i)

\* The loop's stopping condition after the i-th answer.
StopsAt(i) ==
    IF IsOzon THEN Answer(i).total = Len(IdsThrough(i))
    ELSE Falsy(AnswerToken(i))

\* The identifiers of the whole chain, in page order.
RECURSIVE ChainIds(_, _)
ChainIds(chain, k) ==
    IF k = 0 THEN <<>>
    ELSE ChainIds(chain, k - 1) \o
         (IF IsOzon
          THEN [j \in 1..Len(chain[k].items) |-> chain[k].items[j].offer_id]
          ELSE [j \in 1..Len(chain[k].offerMappingEntries) |->
                    chain[k].offerMappingEntries[j].offer.shopSku])

TotalsConsistent(chain) ==
    \A k \in 1..Len(chain) : chain[k].total = Len(ChainIds(chain, Len(chain)))

(***************************************************************************)
(* C9.  Catalog reader completeness: get_offer_ids requests the first page *)
(* with the empty token and each further page with the token the previous  *)
(* page returned; it returns the identifiers of the pages' items in page   *)
(* order, none skipped or repeated; Yandex stops at the first page whose   *)
(* nextPageToken is absent or empty, Ozon at the first page after which    *)
(* the accumulated count equals the reported total.                        *)
(***************************************************************************)
C9_CatalogComplete ==
    (mode \in {"seller_get_offer_ids", "market_get_offer_ids"}) =>
        /\ \A i \in 1..Len(requests) :
              /\ requests[i].kind = "list"
              /\ requests[i].token = IF i = 1 THEN Str(<<>>) ELSE AnswerToken(i - 1)
              /\ i < Len(requests) => ~StopsAt(i)
        /\ Len(product_list) = Len(IdsThrough(Len(requests)))
        /\ pc = "returned" =>
              /\ Len(requests) >= 1 /\ StopsAt(Len(requests))
              /\ offer_ids = IdsThrough(Len(requests))
              /\ (mode = "market_get_offer_ids" \/ TotalsConsistent(catalog[scope])) =>
                    /\ offer_ids = ChainIds(catalog[scope], Len(catalog[scope]))
                    /\ offer_ids = [j \in 1..Len(offer_ids) |-> j]

\* get_offer_ids has returned the identifiers of a catalog read in three pages.
C9_Witness ==
    /\ mode = "seller_get_offer_ids" /\ pc = "returned"
    /\ Len(requests) = 3 /\ Len(offer_ids) = 3
    /\ TotalsConsistent(catalog[scope])

\* The Yandex reader has returned after a last page with an empty token.
C9_WitnessYandex ==
    /\ mode = "market_get_offer_ids" /\ pc = "returned"
    /\ Len(requests) = 2 /\ Len(offer_ids) = 4
    /\ catalog[scope][2].paging.nextPageToken = Str(<<>>)

(***************************************************************************)
(* The runs of seller.main and market.main.  The Ozon catalog and the two  *)
(* Yandex campaign catalogs hold the identifiers 1..N and are served in    *)
(* pages of the size the programs ask for.                                 *)
(***************************************************************************)
MainCodes == {1, 2, SmallCatalog + 1}

MainRecords == {Watch(c, q, SamplePrice) : c \in MainCodes, q \in {GT10, <<"x">>}}

MainInventories == SeqsUpTo(MainRecords, MaxInvMain)

ConsistentTotals(sizes) == [k \in 1..Len(sizes) |-> SumTo(sizes, Len(sizes))]

OzonCatalog(N) ==
    OzonChain(PageSizes(N, OzonPageLimit), ConsistentTotals(PageSizes(N, OzonPageLimit)))

MarketCatalog(N) == YandexChain(PageSizes(N, MarketPageLimit), None)

Init ==
    /\ \/ /\ mode = "seller_main" /\ scope = "OZON" /\ pc = "get_offer_ids"
          /\ warehouse_id = ""
          /\ \E N \in {0, SmallCatalog, LargeOzonCatalog} : \E inv \in MainInventories :
               catalog = [OZON |-> OzonCatalog(N), casio |-> inv]
       \/ /\ mode = "market_main" /\ scope = "FBS" /\ pc = "download"
          /\ warehouse_id = WarehouseOf("FBS")
          /\ \E Nf \in {SmallCatalog, LargeMarketCatalog} : \E Nd \in {0, SmallCatalog - 1} :
               \E inv \in MainInventories :
                  catalog = [FBS |-> MarketCatalog(Nf), DBS |-> MarketCatalog(Nd),
                             casio |-> inv]
    /\ page = Str(<<>>) /\ product_list = <<>>
    /\ watch_remnants = <<>> /\ offer_ids = <<>> /\ calls = <<>>
    /\ requests = <<>> /\ applied = <<>> /\ stocks = <<>> /\ prices = <<>> /\ todo = <<>>
    /\ outcome = "running" /\ printed = <<>> /\ coroutines = <<>>
    /\ FnIdle

Next ==
    \/ SellerGetPage
    \/ MarketGetPage
    \/ DownloadStock
    \/ RequestFails
    \/ SellerCreateStocks
    \/ MarketCreateStocks
    \/ PushBatch
    \/ StocksLoopEnds
    \/ SellerCreatePrices
    \/ PricesLoopEnds
    \/ MarketCallUploadPrices

Spec == Init /\ [][Next]_vars

\* The identifiers the marketplace holds for a scope.
CatalogIds(sc) == ChainIds(catalog[sc], Len(catalog[sc]))

\* The entries of the write requests of a kind and scope that were answered
\* with success, in the order sent.
RECURSIVE BatchesOf(_, _, _)
BatchesOf(log, kind, sc) ==
    IF log = <<>> THEN <<>>
    ELSE (IF Head(log).kind = kind /\ Head(log).scope = sc /\ Head(log).ok
          THEN Head(log).batch ELSE <<>>) \o BatchesOf(Tail(log), kind, sc)

Failed == outcome \in {"handled", "uncaught"}

(***************************************************************************)
(* C2.  End-to-end price updates in an Ozon run: in a failure-free run of  *)
(* seller.main with catalog O and inventory I, the price updates pushed    *)
(* are exactly one per inventory record whose code is in O and none for    *)
(* other codes; O = {A,B,C}, I = [A, ">10", "100.00 r."] gives stock       *)
(* updates A=100, B=0, C=0 and one price update, for A, with price "100".  *)
(***************************************************************************)
C2_SellerPricesPushed ==
    (mode = "seller_main" /\ outcome = "finished") =>
        LET O == CatalogIds("OZON")
            I == watch_remnants
            pushed == BatchesOf(requests, "prices", "OZON")
            inO == {i \in 1..Len(I) : InList(I[i].Kod, O)}
        IN  /\ Len(pushed) = Cardinality(inO)
            /\ \A k \in 1..Len(pushed) : InList(pushed[k].offer_id, O)
            /\ \A i \in inO : \E k \in 1..Len(pushed) :
                  /\ pushed[k].offer_id = I[i].Kod
                  /\ pushed[k].price = price_conversion(I[i].Cena)
            /\ (O = <<1, 2, 3>> /\ I = <<Watch(1, GT10, SamplePrice)>>) =>
                  /\ SameUpToOrder(BatchesOf(requests, "stocks", "OZON"),
                                   <<seller_stock_entry(1, 100), seller_stock_entry(2, 0),
                                     seller_stock_entry(3, 0)>>)
                  /\ Len(pushed) = 1 /\ pushed[1].offer_id = 1
                  /\ pushed[1].price = <<"1", "0", "0">>

(***************************************************************************)
(* C3.  Orchestration order for Yandex Market: in a failure-free run of    *)
(* market.main the FBS scope is processed before the DBS scope, each with  *)
(* its own warehouse id; within a scope the offers are fetched, then the   *)
(* stock batches pushed, then the price updates reconciled and pushed; the *)
(* price requests of a scope are sent before the next scope starts and     *)
(* before the run ends.                                                    *)
(***************************************************************************)
PricesSent(sc) ==
    BatchesOf(requests, "prices", sc) = market_create_prices(watch_remnants, CatalogIds(sc)).prices

C3_MarketScopeOrder ==
    (mode = "market_main" /\ ~Failed) =>
        /\ \A i, j \in 1..Len(requests) :
              i < j => ~(requests[i].scope = "DBS" /\ requests[j].scope = "FBS")
        /\ \A i, j \in 1..Len(requests) :
              (i < j /\ requests[i].scope = requests[j].scope)
                 => ~(requests[i].kind = "prices" /\ requests[j].kind = "stocks")
                    /\ ~(requests[i].kind = "stocks" /\ requests[j].kind = "list"
                         /\ \A k \in (j + 1)..Len(requests) : requests[k].kind # "prices")
        /\ \A i \in 1..Len(requests) : \A k \in 1..Len(requests[i].batch) :
              requests[i].kind = "stocks" =>
                 requests[i].batch[k].warehouseId = WarehouseOf(requests[i].scope)
        /\ (scope = "DBS" \/ outcome = "finished") => PricesSent("FBS")
        /\ outcome = "finished" => PricesSent("DBS")

(***************************************************************************)
(* C6.  Top-level error catching: in seller.main and market.main every     *)
(* error raised by a catalog read, an update push or the inventory         *)
(* download reaches the top-level handler, which prints a message and ends *)
(* the run normally; none escapes main uncaught.                           *)
(***************************************************************************)
C6_ErrorsCaught ==
    (mode \in Mains) =>
        \A i \in 1..Len(requests) :
           ~requests[i].ok => outcome = "handled" /\ Len(printed) = 1 /\ pc = "done"

(***************************************************************************)
(* C5.  Failure containment in the orchestrators: when a step of a run (a  *)
(* catalog page read, or the k-th stock or price batch push) fails, no     *)
(* further request is issued in that run (for Yandex, a failure in the FBS *)
(* scope means no DBS request), every batch pushed before the failure      *)
(* stays applied (no compensating request), and no batch is ever sent more *)
(* than once (no retry).                                                   *)
(***************************************************************************)
IsPrefix(a, b) == Len(a) <= Len(b) /\ SubSeq(b, 1, Len(a)) = a

RECURSIVE SuccessfulWrites(_)
SuccessfulWrites(log) ==
    IF log = <<>> THEN <<>>
    ELSE (IF IsWrite(Head(log)) /\ Head(log).ok THEN <<Head(log)>> ELSE <<>>)
         \o SuccessfulWrites(Tail(log))

C5_Contained ==
    (mode \in Mains) =>
        \* once a step has failed, nothing more is requested or applied
        /\ Failed => requests' = requests /\ applied' = applied
        \* requests are only ever added, and so are applied batches
        /\ IsPrefix(requests, requests') /\ IsPrefix(applied, applied')
        \* a failed request is the last request of the run
        /\ \A i \in 1..Len(requests') :
              ~requests'[i].ok => i = Len(requests') /\ outcome' \in {"handled", "uncaught"}
        \* what is applied is exactly what was pushed with success
        /\ applied' = SuccessfulWrites(requests')
        \* no batch is sent twice
        /\ \A i, j \in 1..Len(requests') :
              (i < j /\ IsWrite(requests'[i]) /\ IsWrite(requests'[j]))
                 => ~(requests'[i].kind = requests'[j].kind
                      /\ requests'[i].scope = requests'[j].scope
                      /\ requests'[i].batch = requests'[j].batch)
        \* a failure in the FBS scope leaves the DBS scope untouched
        /\ (outcome' \in {"handled", "uncaught"} /\ scope' = "FBS")
              => \A i \in 1..Len(requests') : requests'[i].scope # "DBS"

C5_WitnessMarket ==
    /\ mode = "market_main" /\ outcome = "handled" /\ scope = "FBS"
    /\ Len(requests) = 4
    /\ requests[Len(requests)].kind = "list" /\ ~requests[Len(requests)].ok

(***************************************************************************)
(* C11.  Batch limits on the wire: in every run of either orchestrator     *)
(* each write request carries a non-empty batch no larger than the limit   *)
(* of its endpoint (Ozon stocks 100, Ozon prices 1000, Yandex stocks 2000, *)
(* Yandex prices 500), and in a failure-free run every entry of a computed *)
(* update list is sent in exactly one request, in list order.              *)
(***************************************************************************)
EndpointLimit(r) ==
    CASE r.scope = "OZON" /\ r.kind = "stocks" -> 100
      [] r.scope = "OZON" /\ r.kind = "prices" -> 1000
      [] r.scope # "OZON" /\ r.kind = "stocks" -> 2000
      [] r.scope # "OZON" /\ r.kind = "prices" -> 500

\* The entries of every write request of a kind and scope, answered or not.
RECURSIVE SentOf(_, _, _)
SentOf(log, kind, sc) ==
    IF log = <<>> THEN <<>>
    ELSE (IF Head(log).kind = kind /\ Head(log).scope = sc
          THEN Head(log).batch ELSE <<>>) \o SentOf(Tail(log), kind, sc)

\* The stock loop of the current scope has run to its end.
StockLoopDone ==
    \/ pc \in {"create_prices", "push_prices", "upload_prices"}
    \/ outcome = "finished"

C11_BatchLimits ==
    mode \in Mains =>
        /\ \A i \in 1..Len(requests) :
              IsWrite(requests[i]) =>
                  /\ Len(requests[i].batch) >= 1
                  /\ Len(requests[i].batch) <= EndpointLimit(requests[i])
        /\ (~Failed /\ StockLoopDone) => SentOf(requests, "stocks", scope) = stocks
        /\ (mode = "seller_main" /\ outcome = "finished")
              => SentOf(requests, "prices", scope) = prices

\* An Ozon run has sent 201 stock updates in three requests of 100, 100 and 1.
C11_Witness ==
    /\ mode = "seller_main" /\ outcome = "finished" /\ Len(stocks) = LargeOzonCatalog
    /\ LET w == SelectSeq(requests, IsWrite) IN
         /\ Len(w) = 3
         /\ Len(w[1].batch) = OzonStockBatch /\ Len(w[2].batch) = OzonStockBatch
         /\ Len(w[3].batch) = LargeOzonCatalog - 2 * OzonStockBatch

\* A Yandex run has sent the FBS stock updates in two requests of 2000 and 1.
C11_WitnessMarket ==
    /\ mode = "market_main" /\ scope = "FBS" /\ pc = "upload_prices"
    /\ Len(stocks) = LargeMarketCatalog
    /\ LET w == SelectSeq(requests, IsWrite) IN
         /\ Len(w) = 2
         /\ Len(w[1].batch) = MarketStockBatch
         /\ Len(w[2].batch) = LargeMarketCatalog - MarketStockBatch

(***************************************************************************)
(* The pagination loops with each exchange in two steps: get_offer_ids     *)
(* calls get_product_list (the page request is in flight), then the        *)
(* answer comes back and the loop body runs to its break test.  The        *)
(* request log is not kept here, so the state is the loops' own state:     *)
(* last_id / page, product_list and the position in the code.              *)
(***************************************************************************)
SellerRequestPage ==
    /\ mode = "seller_get_offer_ids" /\ pc = "get_offer_ids"
    /\ pc' = "get_product_list"
    /\ UNCHANGED <<mode, fnVars, stockVars, scope, catalog, page, product_list, requests,
                   applied, stocks, prices, todo, outcome, printed, coroutines>>

SellerPageAnswered ==
    /\ mode = "seller_get_offer_ids" /\ pc = "get_product_list"
    /\ LET some_prod == ozon_get_product_list(catalog[scope], page)
           extended == product_list \o some_prod.items
       IN  /\ product_list' = extended
           /\ page' = seller_next_last_id(some_prod)
           /\ IF some_prod.total = Len(extended)
              THEN offer_ids' = seller_offer_ids(extended) /\ pc' = "returned"
              ELSE offer_ids' = offer_ids /\ pc' = "get_offer_ids"
    /\ UNCHANGED <<mode, fnVars, watch_remnants, warehouse_id, calls, scope, catalog,
                   requests, applied, stocks, prices, todo, outcome, printed, coroutines>>

MarketRequestPage ==
    /\ mode = "market_get_offer_ids" /\ pc = "get_offer_ids"
    /\ pc' = "get_product_list"
    /\ UNCHANGED <<mode, fnVars, stockVars, scope, catalog, page, product_list, requests,
                   applied, stocks, prices, todo, outcome, printed, coroutines>>

MarketPageAnswered ==
    /\ mode = "market_get_offer_ids" /\ pc = "get_product_list"
    /\ LET some_prod == market_get_product_list(catalog[scope], page)
           extended == product_list \o some_prod.offerMappingEntries
           next == some_prod.paging.nextPageToken
       IN  /\ product_list' = extended
           /\ page' = next
           /\ IF Falsy(next)
              THEN offer_ids' = market_offer_ids(extended) /\ pc' = "returned"
              ELSE offer_ids' = offer_ids /\ pc' = "get_offer_ids"
    /\ UNCHANGED <<mode, fnVars, watch_remnants, warehouse_id, calls, scope, catalog,
                   requests, applied, stocks, prices, todo, outcome, printed, coroutines>>

NextPaging ==
    \/ SellerRequestPage
    \/ SellerPageAnswered
    \/ MarketRequestPage
    \/ MarketPageAnswered

\* The program is the only process and the marketplace answers every page
\* request, so a loop that can take a step takes it.
SpecPaging == InitCatalog /\ [][NextPaging]_vars /\ WF_vars(NextPaging)

(***************************************************************************)
(* C12.  Pagination termination: against a marketplace that holds a        *)
(* finite catalog and answers every page request both get_offer_ids loops  *)
(* eventually return; for Ozon also when the reported total differs        *)
(* between pages or the accumulated count passes the reported total        *)
(* without ever being equal to it; for Yandex as soon as some page carries *)
(* no nextPageToken.                                                       *)
(***************************************************************************)
C12_LoopsTerminate == <>(pc = "returned")

\* The Yandex half of C12 alone.
C12_YandexTerminates == (mode = "market_get_offer_ids") => <>(pc = "returned")

\* The Ozon loop when every page reports the number of items the catalog holds.
C12_OzonTerminatesOnTrueTotals ==
    (mode = "seller_get_offer_ids" /\ TotalsConsistent(catalog[scope]))
        => <>(pc = "returned")

\* The accumulated count has passed every total the marketplace reports, and
\* the loop is about to ask for another page.
C12_CountPassedTotal ==
    /\ mode = "seller_get_offer_ids" /\ pc = "get_offer_ids"
    /\ product_list # <<>>
    /\ \A k \in 1..Len(catalog[scope]) : catalog[scope][k].total < Len(product_list)

\* Once the count has passed the totals the Ozon loop never returns.
C12_OzonNeverReturns == [](C12_CountPassedTotal => [](pc # "returned"))

====
